---- MODULE Spec2Model ----
(***************************************************************************)
(* Geometric transforms and heatmap decoding of the pose pipeline          *)
(* (trackers/utils/basetransforms.py, alphapose/datasets/coco_det.py).     *)
(*                                                                         *)
(* Python floats are modelled by exact rationals <<n, d>> (d > 0, lowest   *)
(* terms); int(), round() and // are modelled by what they do.  A Python   *)
(* list, numpy array or torch tensor a caller passes in is a variable of   *)
(* the model; a function that writes into it changes that variable.        *)
(***************************************************************************)
EXTENDS Integers, Sequences, FiniteSets, TLC

\* ------------------------------------------------------------------------
\* Bounds of the model
\* ------------------------------------------------------------------------
MaxDim == 7        \* largest image side / box coordinate, in pixels
MaxCalls == 2      \* calls made on the same caller-held buffers
GaussDim == 5      \* width of the heatmap drawGaussian draws on (its height is one less)
MaxSigma == 2      \* largest sigma
FlipW == 2         \* width of the heatmaps flip_heatmap is given
FlipH == 1         \* their height
AffDim == 4        \* largest coordinate and size given to get_affine_transform
DecW == 5          \* width of the heatmaps given to the decoders
DecH == 4          \* their height
CropDim == 4       \* side of the image fix_cropBox crops from

\* ------------------------------------------------------------------------
\* Python float arithmetic, as exact rationals
\* ------------------------------------------------------------------------
Abs(n) == IF n < 0 THEN -n ELSE n

RECURSIVE GCD(_, _)
GCD(a, b) == IF b = 0 THEN a ELSE GCD(b, a % b)

Rat(n, d) ==
    IF d = 1 THEN <<n, 1>>
    ELSE LET s == IF d < 0 THEN -1 ELSE 1
             g == GCD(Abs(n), Abs(d))
         IN  <<(s * n) \div g, (s * d) \div g>>

R(n) == <<n, 1>>
RAdd(a, b) ==
    IF a[2] = b[2] THEN Rat(a[1] + b[1], a[2])
    ELSE Rat(a[1] * b[2] + b[1] * a[2], a[2] * b[2])
RSub(a, b) ==
    IF a[2] = b[2] THEN Rat(a[1] - b[1], a[2])
    ELSE Rat(a[1] * b[2] - b[1] * a[2], a[2] * b[2])
RMul(a, b) ==
    IF a[1] = 0 \/ b[1] = 0 THEN <<0, 1>> ELSE Rat(a[1] * b[1], a[2] * b[2])
RDiv(a, b) == Rat(a[1] * b[2], a[2] * b[1])
RNeg(a) == <<-a[1], a[2]>>
RLt(a, b) == a[1] * b[2] < b[1] * a[2]
RLe(a, b) == a[1] * b[2] <= b[1] * a[2]
RMax(a, b) == IF RLt(a, b) THEN b ELSE a      \* max(a, b): a unless b is larger
RMin(a, b) == IF RLt(b, a) THEN b ELSE a      \* min(a, b): a unless b is smaller
RIsInt(a) == a[2] = 1
\* floor (also the result of a // 1)
RFloor(a) == a[1] \div a[2]
\* int(x): truncation toward zero
RTrunc(a) == IF a[1] >= 0 THEN a[1] \div a[2] ELSE -((-a[1]) \div a[2])
\* round(x): nearest integer, ties to the even one
RRound(a) ==
    LET f == RFloor(a)
        rest == 2 * (a[1] - f * a[2])      \* 2 * frac(a) * a[2], in [0, 2 * a[2])
    IN  IF rest < a[2] THEN f
        ELSE IF rest > a[2] THEN f + 1
        ELSE IF f % 2 = 0 THEN f ELSE f + 1
\* np.sign
Sign(n) == IF n > 0 THEN 1 ELSE IF n < 0 THEN -1 ELSE 0

\* ------------------------------------------------------------------------
\* box_transform
\* ------------------------------------------------------------------------
\* np.clip(v, lo, hi)
Clip(v, lo, hi) == RMin(RMax(v, lo), hi)

\* scaleRate of box_transform: 0.25 in test mode, 0.25 * clip(randn * sf, -sf, sf)
\* in training mode (randn is the value np.random.randn() returned)
ScaleRate(train, sf, randn) ==
    IF train THEN RMul(Rat(1, 4), Clip(RMul(randn, sf), RNeg(sf), sf))
    ELSE Rat(1, 4)

\* The list box_transform returns, which is the list it was given, rewritten
\* in place entry by entry (bbox[2] reads the new bbox[0]).
box_transform(b, sf, w_img, h_img, tr, randn) ==
    LET width == RSub(b[3], b[1])
        ht == RSub(b[4], b[2])
        scaleRate == ScaleRate(tr, sf, randn)
        dx == RDiv(RMul(width, scaleRate), R(2))
        dy == RDiv(RMul(ht, scaleRate), R(2))
        b0 == RMax(R(0), RSub(b[1], dx))
        b1 == RMax(R(0), RSub(b[2], dy))
        b2 == IF tr THEN RMin(R(w_img), RAdd(b[3], dx))
              ELSE RMin(R(w_img), RMax(RAdd(b[3], dx), RAdd(b0, R(5))))
        b3 == IF tr THEN RMin(R(h_img), RAdd(b[4], dy))
              ELSE RMin(R(h_img), RMax(RAdd(b[4], dy), RAdd(b1, R(5))))
    IN  <<b0, b1, b2, b3>>

\* ------------------------------------------------------------------------
\* numpy slicing, and drawGaussian
\* ------------------------------------------------------------------------
\* One bound of a Python slice over an axis of length n: a negative bound
\* counts from the end, and the result is clamped to 0 .. n.
PyIdx(i, n) ==
    LET j == IF i < 0 THEN i + n ELSE i
    IN  IF j < 0 THEN 0 ELSE IF j > n THEN n ELSE j

\* The slice lo:hi of an axis of length n, as <<first index, length>>.
PySlice(lo, hi, n) ==
    LET a == PyIdx(lo, n)
        b == PyIdx(hi, n)
    IN  <<a, IF b > a THEN b - a ELSE 0>>

\* A heatmap cell is <<>> while it holds what the caller put there, and <<d2>>
\* once drawGaussian wrote exp(-d2 / (2 sigma^2)) into it; <<0>> is exactly 1.0.
OldCell == <<>>
GaussCell(d2) == <<d2>>
Rows(a) == Len(a)
Cols(a) == Len(a[1])

\* g = np.exp(-((x - x0) ** 2 + (y - y0) ** 2) / (2 sigma ** 2)), by the exponent's
\* numerator; rows and columns are 1-based here, 0-based in numpy.
GaussKernel(sg) ==
    LET size == 2 * (3 * sg) + 1
        x0 == size \div 2
    IN  [j \in 1 .. size |-> [i \in 1 .. size |->
            GaussCell((i - 1 - x0) * (i - 1 - x0) + (j - 1 - x0) * (j - 1 - x0))]]

\* ul and br of drawGaussian
GaussUL(p, sg) == <<RTrunc(RSub(p[1], R(3 * sg))), RTrunc(RSub(p[2], R(3 * sg)))>>
GaussBR(p, sg) == <<RTrunc(RAdd(p[1], R(3 * sg + 1))), RTrunc(RAdd(p[2], R(3 * sg + 1)))>>

\* The image range without the max(0, .) on its lower end
GaussImgRangeUnclamped(ul, br, n) ==
    <<ul, IF br < n THEN br ELSE n>>

\* Image range of drawGaussian along one axis of length n
GaussImgRange(ul, br, n) ==
    <<IF ul > 0 THEN ul ELSE 0, IF br < n THEN br ELSE n>>

\* Usable gaussian range of drawGaussian along one axis of length n
GaussKerRange(ul, br, n) ==
    <<IF -ul > 0 THEN -ul ELSE 0, (IF br < n THEN br ELSE n) - ul>>

\* a[ty, tx] = g[sy, sx] for slices given as <<first, length>>: numpy raises
\* unless each source length equals the target length or is 1 (broadcast).
SliceAssign(a, ty, tx, g, sy, sx) ==
    LET fits(s, t) == s[2] = t[2] \/ s[2] = 1
        src(s, t, k) == IF s[2] = t[2] THEN s[1] + k ELSE s[1]
    IN  IF ~(fits(sy, ty) /\ fits(sx, tx))
        THEN [img |-> a, raised |-> TRUE]
        ELSE [img |-> [y \in 1 .. Rows(a) |-> [x \in 1 .. Cols(a) |->
                        IF /\ y - 1 >= ty[1] /\ y - 1 < ty[1] + ty[2]
                           /\ x - 1 >= tx[1] /\ x - 1 < tx[1] + tx[2]
                        THEN g[src(sy, ty, y - 1 - ty[1]) + 1][src(sx, tx, x - 1 - tx[1]) + 1]
                        ELSE a[y][x]]],
              raised |-> FALSE]

\* drawGaussian(img, pt, sigma): the array it returns, which shares its memory
\* with the array it was given (to_numpy and to_torch convert without copying),
\* and whether it raised.
drawGaussian(a, p, sg) ==
    LET ul == GaussUL(p, sg)
        br == GaussBR(p, sg)
        w == Cols(a)
        h == Rows(a)
        size == 2 * (3 * sg) + 1
        g_x == GaussKerRange(ul[1], br[1], w)
        g_y == GaussKerRange(ul[2], br[2], h)
        img_x == GaussImgRange(ul[1], br[1], w)
        img_y == GaussImgRange(ul[2], br[2], h)
    IN  IF ul[1] >= w \/ ul[2] >= h \/ br[1] < 0 \/ br[2] < 0
        THEN [img |-> a, raised |-> FALSE]
        ELSE SliceAssign(a, PySlice(img_y[1], img_y[2], h), PySlice(img_x[1], img_x[2], w),
                         GaussKernel(sg),
                         PySlice(g_y[1], g_y[2], size), PySlice(g_x[1], g_x[2], size))

\* ------------------------------------------------------------------------
\* flip, flip_heatmap, flip_joints_3d
\* ------------------------------------------------------------------------
\* Mscoco_det.joint_pairs (channel numbers are 0-based, as in the source)
joint_pairs == << <<1, 2>>, <<3, 4>>, <<5, 6>>, <<7, 8>>,
                  <<9, 10>>, <<11, 12>>, <<13, 14>>, <<15, 16>> >>
\* Mscoco_det.EVAL_JOINTS: the channels of a heatmap
EVAL_JOINTS == 0 .. 16

\* A tensor is [dim |-> 3, t |-> t[c][y][x]] or [dim |-> 4, t |-> t[b][c][y][x]].
\* x.flip(dims=(last,)) of a 3-D tensor: a new tensor, the width axis reversed
Flip3(t) ==
    [c \in 1 .. Len(t) |-> [y \in 1 .. Len(t[c]) |->
        [x \in 1 .. Len(t[c][y]) |-> t[c][y][Len(t[c][y]) + 1 - x]]]]

flip(x) ==
    IF x.dim = 3 THEN [dim |-> 3, t |-> Flip3(x.t)]
    ELSE [dim |-> 4, t |-> [b \in 1 .. Len(x.t) |-> Flip3(x.t[b])]]

\* The exchange done as two assignments in turn, the second reading what the
\* first wrote
SwapPairOverwrite(t, pair) ==
    LET o1 == [t EXCEPT ![pair[1] + 1] = t[pair[2] + 1]]
    IN  [o1 EXCEPT ![pair[2] + 1] = o1[pair[1] + 1]]

\* out[idx] = out[inv_idx] with idx = (dim0, dim1), inv_idx = (dim1, dim0): the
\* right-hand side is gathered into a new tensor before the left is written.
SwapPair(t, pair) ==
    [t EXCEPT ![pair[1] + 1] = t[pair[2] + 1], ![pair[2] + 1] = t[pair[1] + 1]]

RECURSIVE SwapPairs(_, _, _)
SwapPairs(t, pairs, k) ==
    IF k > Len(pairs) THEN t ELSE SwapPairs(SwapPair(t, pairs[k]), pairs, k + 1)

\* out[..., 1:] = out[..., 0:-1] on one row.  Source and target overlap in
\* memory, which torch leaves undefined: the copy either reads the old row
\* ("buffered") or reads cells it has already written ("forward").
ShiftRow(row, overlap) ==
    [x \in 1 .. Len(row) |->
        IF x = 1 THEN row[1]
        ELSE IF overlap = "buffered" THEN row[x - 1] ELSE row[1]]

Shift3(t, overlap) ==
    [c \in 1 .. Len(t) |-> [y \in 1 .. Len(t[c]) |-> ShiftRow(t[c][y], overlap)]]

FlipHeatmap3(t, pairs, shift, overlap) ==
    LET swapped == SwapPairs(Flip3(t), pairs, 1)
    IN  IF shift THEN Shift3(swapped, overlap) ELSE swapped

\* flip_heatmap(heatmap, joint_pairs, shift): out is what it returns, heatmap is
\* the caller's tensor afterwards (flip() made a copy; every write goes to it).
flip_heatmap(h, pairs, shift, overlap) ==
    [out |-> IF h.dim = 3
             THEN [dim |-> 3, t |-> FlipHeatmap3(h.t, pairs, shift, overlap)]
             ELSE [dim |-> 4, t |-> [b \in 1 .. Len(h.t) |->
                                        FlipHeatmap3(h.t[b], pairs, shift, overlap)]],
     heatmap |-> h]

\* joints_3d[j] = << <<x, vis_x>>, <<y, vis_y>>, <<z, vis_z>> >> (shape (J, 3, 2)).
\* joints[:, 0, 0] = width - joints[:, 0, 0] - 1
MirrorX(js, width) ==
    [j \in 1 .. Len(js) |-> [js[j] EXCEPT ![1] = <<width - js[j][1][1] - 1, js[j][1][2]>>]]

\* The two tuple assignments of the loop body: entries pair[0] and pair[1]
\* exchange their coordinates ([:, 0]) and then their visibilities ([:, 1]).
SwapJoints(js, pair) ==
    [js EXCEPT ![pair[1] + 1] = js[pair[2] + 1], ![pair[2] + 1] = js[pair[1] + 1]]

RECURSIVE SwapAllJoints(_, _, _)
SwapAllJoints(js, pairs, k) ==
    IF k > Len(pairs) THEN js ELSE SwapAllJoints(SwapJoints(js, pairs[k]), pairs, k + 1)

\* The gating applied to the x row only
GateXOnly(js) ==
    [j \in 1 .. Len(js) |-> [js[j] EXCEPT ![1] = <<js[j][1][1] * js[j][1][2], js[j][1][2]>>]]

\* joints[:, :, 0] *= joints[:, :, 1]: every coordinate row times its visibility
GateByVisibility(js) ==
    [j \in 1 .. Len(js) |-> [k \in 1 .. 3 |-> <<js[j][k][1] * js[j][k][2], js[j][k][2]>>]]

\* flip_joints_3d(joints_3d, width, joint_pairs): joints is what it returns,
\* joints_3d the caller's array afterwards (the function works on a copy).
flip_joints_3d(js, width, pairs) ==
    [joints |-> GateByVisibility(SwapAllJoints(MirrorX(js, width), pairs, 1)),
     joints_3d |-> js]

\* ------------------------------------------------------------------------
\* get_3rd_point, get_dir, get_affine_transform, affine_transform
\* ------------------------------------------------------------------------
\* Points and vectors are pairs of rationals.
VAdd(a, b) == <<RAdd(a[1], b[1]), RAdd(a[2], b[2])>>
VSub(a, b) == <<RSub(a[1], b[1]), RSub(a[2], b[2])>>
VMul(a, b) == <<RMul(a[1], b[1]), RMul(a[2], b[2])>>       \* elementwise, as numpy

\* get_3rd_point(a, b): b + (-(a - b).y, (a - b).x)
get_3rd_point(a, b) ==
    LET direct == VSub(a, b)
    IN  VAdd(b, <<RNeg(direct[2]), direct[1]>>)

\* get_dir(src_point, rot_rad), the angle given by cs = cos and sn = sin of it
get_dir(src_point, rot) ==
    LET cs == rot[1]
        sn == rot[2]
    IN  <<RSub(RMul(src_point[1], cs), RMul(src_point[2], sn)),
          RAdd(RMul(src_point[1], sn), RMul(src_point[2], cs))>>

\* cv2.getAffineTransform(src, dst): the 2x3 matrix taking the three points of
\* src to the three points of dst, solved by Cramer's rule.
Det3(p) ==
    RAdd(RSub(RMul(p[1][1], RSub(p[2][2], p[3][2])),
              RMul(p[1][2], RSub(p[2][1], p[3][1]))),
         RSub(RMul(p[2][1], p[3][2]), RMul(p[3][1], p[2][2])))

AffineRow(src, u) ==
    LET det == Det3(src)
        x(i) == src[i][1]
        y(i) == src[i][2]
        sum3(a, b, c) == RAdd(RAdd(a, b), c)
    IN  <<RDiv(sum3(RMul(u[1], RSub(y(2), y(3))), RMul(u[2], RSub(y(3), y(1))),
                    RMul(u[3], RSub(y(1), y(2)))), det),
          RDiv(sum3(RMul(u[1], RSub(x(3), x(2))), RMul(u[2], RSub(x(1), x(3))),
                    RMul(u[3], RSub(x(2), x(1)))), det),
          RDiv(sum3(RMul(u[1], RSub(RMul(x(2), y(3)), RMul(x(3), y(2)))),
                    RMul(u[2], RSub(RMul(x(3), y(1)), RMul(x(1), y(3)))),
                    RMul(u[3], RSub(RMul(x(1), y(2)), RMul(x(2), y(1))))), det)>>

getAffineTransform(src, dst) ==
    <<AffineRow(src, <<dst[1][1], dst[2][1], dst[3][1]>>),
      AffineRow(src, <<dst[1][2], dst[2][2], dst[3][2]>>)>>

\* The source triangle with the shift left out
AffineSrcNoShift(center, scale, rot, shft) ==
    LET src_dir == get_dir(<<R(0), RMul(scale[1], Rat(-1, 2))>>, rot)
    IN  <<center, VAdd(center, src_dir), get_3rd_point(center, VAdd(center, src_dir))>>

\* The source and destination triangles of get_affine_transform
AffineSrc(center, scale, rot, shft) ==
    LET src_w == scale[1]
        src_dir == get_dir(<<R(0), RMul(src_w, Rat(-1, 2))>>, rot)
        p0 == VAdd(center, VMul(scale, shft))
        p1 == VAdd(VAdd(center, src_dir), VMul(scale, shft))
    IN  <<p0, p1, get_3rd_point(p0, p1)>>

AffineDst(output_size) ==
    LET dst_w == output_size[1]
        dst_h == output_size[2]
        dst_dir == <<R(0), RMul(dst_w, Rat(-1, 2))>>
        p0 == <<RMul(dst_w, Rat(1, 2)), RMul(dst_h, Rat(1, 2))>>
        p1 == VAdd(p0, dst_dir)
    IN  <<p0, p1, get_3rd_point(p0, p1)>>

get_affine_transform(center, scale, rot, output_size, shft, inv) ==
    LET src == AffineSrc(center, scale, rot, shft)
        dst == AffineDst(output_size)
    IN  IF inv THEN getAffineTransform(dst, src) ELSE getAffineTransform(src, dst)

\* affine_transform(pt, t): t . (x, y, 1)
affine_transform(p, t) ==
    <<RAdd(RAdd(RMul(t[1][1], p[1]), RMul(t[1][2], p[2])), t[1][3]),
      RAdd(RAdd(RMul(t[2][1], p[1]), RMul(t[2][2], p[2])), t[2][3])>>

\* ------------------------------------------------------------------------
\* get_max_pred, the decoders, get_peak, process_peak, the selector
\* ------------------------------------------------------------------------
\* A heatmap channel is hm[y][x] (1-based here), its activations in hundredths:
\* 100 is 1.0, 10 is the 0.1 threshold, 5 is 0.05.

\* heatmaps.reshape((num_joints, -1)) of one channel: row-major
Flatten(hm) ==
    [i \in 1 .. Rows(hm) * Cols(hm) |-> hm[((i - 1) \div Cols(hm)) + 1][((i - 1) % Cols(hm)) + 1]]

\* np.max and np.argmax of a flattened channel (argmax: the first maximum, 0-based)
SeqMax(f) == CHOOSE v \in {f[i] : i \in 1 .. Len(f)} : \A i \in 1 .. Len(f) : f[i] <= v
ArgMax(f) ==
    LET m == SeqMax(f)
    IN  (CHOOSE i \in 1 .. Len(f) : f[i] = m /\ \A k \in 1 .. i - 1 : f[k] # m) - 1

\* get_max_pred with the two coordinates exchanged
MaxPredOfSwapped(hm) ==
    LET idx == ArgMax(Flatten(hm))
        maxval == SeqMax(Flatten(hm))
        mask == IF maxval > 0 THEN 1 ELSE 0
    IN  [pred |-> <<(idx \div Cols(hm)) * mask, (idx % Cols(hm)) * mask>>, maxval |-> maxval]

\* get_max_pred on one channel: <<x, y>> (0-based, zeroed unless maxval > 0) and maxval
MaxPredOf(hm) ==
    LET idx == ArgMax(Flatten(hm))
        maxval == SeqMax(Flatten(hm))
        mask == IF maxval > 0 THEN 1 ELSE 0
    IN  [pred |-> <<(idx % Cols(hm)) * mask, (idx \div Cols(hm)) * mask>>, maxval |-> maxval]

get_max_pred(heatmaps) ==
    [preds |-> [j \in 1 .. Len(heatmaps) |-> MaxPredOf(heatmaps[j]).pred],
     maxvals |-> [j \in 1 .. Len(heatmaps) |-> MaxPredOf(heatmaps[j]).maxval]]

\* hm[py][px] with the 0-based indices of the source
At(hm, py, px) == hm[py + 1][px + 1]

\* The guard of the quarter-pixel correction
InsideBorder(px, py, hm_w, hm_h) == 1 < px /\ px < hm_w - 1 /\ 1 < py /\ py < hm_h - 1

\* coords += np.sign(diff) * .25 for a peak <<x, y>> (rationals) of channel hm
Refine(hm, xy) ==
    LET px == RRound(xy[1])
        py == RRound(xy[2])
    IN  IF InsideBorder(px, py, Cols(hm), Rows(hm))
        THEN <<RAdd(xy[1], Rat(Sign(At(hm, py, px + 1) - At(hm, py, px - 1)), 4)),
               RAdd(xy[2], Rat(Sign(At(hm, py + 1, px) - At(hm, py - 1, px)), 4))>>
        ELSE xy

\* center and scale of a box [xmin, ymin, xmax, ymax]
BoxCenter(b) == <<RAdd(b[1], RMul(RSub(b[3], b[1]), Rat(1, 2))),
                  RAdd(b[2], RMul(RSub(b[4], b[2]), Rat(1, 2)))>>
BoxScale(b) == <<RSub(b[3], b[1]), RSub(b[4], b[2])>>

\* transform_preds(coords, center, scale, output_size)
transform_preds(coords, ctr, scl, out_size) ==
    affine_transform(coords, get_affine_transform(ctr, scl, <<R(1), R(0)>>, out_size,
                                                  <<R(0), R(0)>>, TRUE))

\* heatmap_to_coord_simple(hms, bbox): coords are the refined heatmap-space
\* points, preds their image-space positions; hms is the caller's array after
\* the call (the function only reads it).
heatmap_to_coord_simple(hs, b) ==
    LET mp == get_max_pred(hs)
        coords == [p \in 1 .. Len(hs) |->
                      Refine(hs[p], <<R(mp.preds[p][1]), R(mp.preds[p][2])>>)]
        out_size == <<R(Cols(hs[1])), R(Rows(hs[1]))>>
    IN  [func |-> "heatmap_to_coord_simple",
         coords |-> coords,
         preds |-> [i \in 1 .. Len(hs) |->
                      transform_preds(coords[i], BoxCenter(b), BoxScale(b), out_size)],
         maxvals |-> mp.maxvals,
         hms |-> hs]

\* transformBoxInvert(pt, bbox, hm_h, hm_w) of trackers/utils/bbox.py, which
\* is not among the sources: the application is kept unevaluated.
transformBoxInvert(p, b, hm_h, hm_w) == <<p, b, <<R(hm_h), R(hm_w)>>>>

\* heatmap_to_coord_rmpe(hms, bbox)
heatmap_to_coord_rmpe(hs, b) ==
    LET mp == get_max_pred(hs)
        coords == [p \in 1 .. Len(hs) |->
                      Refine(hs[p], <<R(mp.preds[p][1]), R(mp.preds[p][2])>>)]
    IN  [func |-> "heatmap_to_coord_rmpe",
         coords |-> coords,
         preds |-> [j \in 1 .. Len(hs) |->
                      transformBoxInvert(coords[j], b, Rows(hs[1]), Cols(hs[1]))],
         maxvals |-> mp.maxvals,
         hms |-> hs]

\* maximum_filter(hm, size=5) at (y, x): the largest value of the 5x5 window;
\* the default border mode mirrors the array, which adds no new value to a window
MaxFilter5(hm, y, x) ==
    LET win == {hm[v][u] : v \in {k \in 1 .. Rows(hm) : Abs(k - y) <= 2},
                           u \in {k \in 1 .. Cols(hm) : Abs(k - x) <= 2}}
    IN  CHOOSE m \in win : \A w \in win : w <= m

\* The candidates np.where((mx == hm) * (hm > 0.1)) selects, as <<x, y, value>>
LocalMaxima(hm) ==
    {<<x - 1, y - 1, hm[y][x]>> : <<y, x>> \in
        {yx \in (1 .. Rows(hm)) \X (1 .. Cols(hm)) :
            hm[yx[1]][yx[2]] = MaxFilter5(hm, yx[1], yx[2]) /\ hm[yx[1]][yx[2]] > 10}}

\* The order with the smallest value first
LexBeforeAscending(a, b) ==
    \/ a[3] < b[3]
    \/ a[3] = b[3] /\ a[2] > b[2]
    \/ a[3] = b[3] /\ a[2] = b[2] /\ a[1] > b[1]

\* The order of np.lexsort(-candidate_points.T): the last column (value) is the
\* primary key, then y, then x, each descending.
LexBefore(a, b) ==
    \/ a[3] > b[3]
    \/ a[3] = b[3] /\ a[2] > b[2]
    \/ a[3] = b[3] /\ a[2] = b[2] /\ a[1] > b[1]

RECURSIVE LexSorted(_)
LexSorted(S) ==
    IF S = {} THEN <<>>
    ELSE LET first == CHOOSE a \in S : \A b \in S \ {a} : LexBefore(a, b)
         IN  <<first>> \o LexSorted(S \ {first})

\* get_peak without the fallback to get_max_pred
PeaksOfNoFallback(hm) == LexSorted(LocalMaxima(hm))

\* get_peak on one channel
PeaksOf(hm) ==
    IF LocalMaxima(hm) = {}
    THEN LET mp == MaxPredOf(hm) IN <<<<mp.pred[1], mp.pred[2], mp.maxval>>>>
    ELSE LexSorted(LocalMaxima(hm))

get_peak(hs) == [k \in 1 .. Len(hs) |-> PeaksOf(hs[k])]

\* The confidence without the 1e-5 floor
ConfidenceAsIs(maxval) == Rat(maxval, 100)

\* A confidence, as a rational: an activation in hundredths, or the 1e-5 floor
Confidence(maxval) == IF maxval < 10 THEN Rat(1, 100000) ELSE Rat(maxval, 100)

\* process_peak(candidate_points, hm, bbox, hm_h, hm_w): the loop over the
\* candidates from the k-th on, res_pts being the points accepted so far
RECURSIVE ProcessFrom(_, _, _, _, _)
ProcessFrom(cands, k, res_pts, hm, b) ==
    IF k > Len(cands) THEN res_pts
    ELSE LET c == cands[k]
             maxval == c[3]
             xy == Refine(hm, <<R(c[1]), R(c[2])>>)
             p == transform_preds(xy, BoxCenter(b), BoxScale(b),
                                  <<R(Cols(hm)), R(Rows(hm))>>)
         IN  IF maxval < 10 /\ Len(res_pts) > 0
             THEN ProcessFrom(cands, k + 1, res_pts, hm, b)
             ELSE ProcessFrom(cands, k + 1,
                              Append(res_pts, <<p[1], p[2], Confidence(maxval)>>), hm, b)

process_peak(candidate_points, hm, b) == ProcessFrom(candidate_points, 1, <<>>, hm, b)

\* multipeak_heatmap_to_coord(hms, bbox)
multipeak_heatmap_to_coord(hs, b) ==
    [func |-> "multipeak_heatmap_to_coord",
     cands |-> get_peak(hs),
     coords |-> [k \in 1 .. Len(hs) |-> process_peak(get_peak(hs)[k], hs[k], b)],
     hms |-> hs]

\* A selector that falls back to the simple decoder
get_func_default_simple(preset_tag) ==
    IF preset_tag = "rmpe"
    THEN [func |-> "heatmap_to_coord_rmpe", raised |-> "none"]
    ELSE [func |-> "heatmap_to_coord_simple", raised |-> "none"]

\* get_func_heatmap_to_coord(cfg), by cfg.MODEL.EXTRA.PRESET
get_func_heatmap_to_coord(preset_tag) ==
    IF preset_tag = "rmpe"
    THEN [func |-> "heatmap_to_coord_rmpe", raised |-> "none"]
    ELSE IF preset_tag = "simple" \/ preset_tag = "multi_simple" \/ preset_tag = "simple_dense"
    THEN [func |-> "heatmap_to_coord_simple", raised |-> "none"]
    ELSE [func |-> "none", raised |-> "NotImplementedError"]

\* ------------------------------------------------------------------------
\* cv2.warpAffine, cv_cropBox, fix_cropBox, cv_cropBoxInverse
\* ------------------------------------------------------------------------
\* An image is one channel, img[y][x] (1-based here).  A pixel is a pair
\* <<lo, hi>>: the interval its value lies in.  A pixel that was never
\* interpolated has lo = hi; an interpolated one lies between the smallest and the
\* largest of the pixels it was interpolated from.
Exactly(v) == <<v, v>>

\* The inverse of a 2x3 affine matrix
InvertAffine(m) ==
    LET det == RSub(RMul(m[1][1], m[2][2]), RMul(m[1][2], m[2][1]))
        a == RDiv(m[2][2], det)
        b == RNeg(RDiv(m[1][2], det))
        c == RNeg(RDiv(m[2][1], det))
        d == RDiv(m[1][1], det)
    IN  << <<a, b, RNeg(RAdd(RMul(a, m[1][3]), RMul(b, m[2][3])))>>,
           <<c, d, RNeg(RAdd(RMul(c, m[1][3]), RMul(d, m[2][3])))>> >>

\* The pixel at 0-based integer (x, y) of the w x h image img, 0 outside the
\* image (the constant border cv2.warpAffine uses by default)
PixelOrZero(img, w, h, x, y) ==
    IF x >= 0 /\ x < w /\ y >= 0 /\ y < h THEN img[y + 1][x + 1] ELSE Exactly(0)

\* INTER_LINEAR: the bilinear sample of img at the point p, a weighted mean
\* (all weights positive) of the pixels around p, the pixel itself when p is
\* a pixel centre
Bilinear(img, w, h, p) ==
    LET x0 == RFloor(p[1])
        y0 == RFloor(p[2])
        xs == IF RIsInt(p[1]) THEN {x0} ELSE {x0, x0 + 1}
        ys == IF RIsInt(p[2]) THEN {y0} ELSE {y0, y0 + 1}
        around == {PixelOrZero(img, w, h, x, y) : x \in xs, y \in ys}
    IN  <<CHOOSE lo \in {v[1] : v \in around} : \A v \in around : lo <= v[1],
          CHOOSE hi \in {v[2] : v \in around} : \A v \in around : v[2] <= hi>>

\* cv2.warpAffine(img, trans, (w, h), flags=cv2.INTER_LINEAR): pixel (x, y) of
\* the result samples img at trans^-1 (x, y)
warpAffine(img, t, w, h) ==
    LET inv == InvertAffine(t)
        src_w == Cols(img)
        src_h == Rows(img)
    IN  [y \in 1 .. h |-> [x \in 1 .. w |->
            Bilinear(img, src_w, src_h, affine_transform(<<R(x - 1), R(y - 1)>>, inv))]]

\* lenH, lenW, box_shape and pad_size of cv_cropBox, for the box with xmax and
\* ymax already decremented; the result is <<pad_size[0], pad_size[1]>>
CropPadSize(xmin, ymin, xmax, ymax, resH, resW) ==
    LET lenH == RMax(R(ymax - ymin), Rat((xmax - xmin) * resH, resW))
        lenW == RDiv(RMul(lenH, R(resW)), R(resH))
    IN  <<RFloor(RDiv(RSub(lenH, R(ymax - ymin)), R(2))),
          RFloor(RDiv(RSub(lenW, R(xmax - xmin)), R(2)))>>

\* The same four lines of cv_cropBoxInverse
PastePadSize(xmin, ymin, xmax, ymax, resH, resW) ==
    LET lenH == RMax(R(ymax - ymin), Rat((xmax - xmin) * resH, resW))
        lenW == RDiv(RMul(lenH, R(resW)), R(resH))
    IN  <<RFloor(RDiv(RSub(lenH, R(ymax - ymin)), R(2))),
          RFloor(RDiv(RSub(lenW, R(xmax - xmin)), R(2)))>>

\* Whether the 0-based index i lies in the slice sl = <<first, length>>
InSlice(i, sl) == i >= sl[1] /\ i < sl[1] + sl[2]

\* "Padding Zeros" of cv_cropBox: img[:, :ymin, :], img[:, :, :xmin] = 0, 0 and
\* img[:, ymax + 1:, :], img[:, :, xmax + 1:] = 0, 0, written into the caller's
\* image (xmax and ymax already decremented)
PaddingZeros(img, xmin, ymin, xmax, ymax) ==
    LET h == Rows(img)
        w == Cols(img)
        top == PySlice(0, ymin, h)
        left == PySlice(0, xmin, w)
        bottom == PySlice(ymax + 1, h, h)
        right == PySlice(xmax + 1, w, w)
    IN  [y \in 1 .. h |-> [x \in 1 .. w |->
            IF \/ InSlice(y - 1, top) \/ InSlice(x - 1, left)
               \/ InSlice(y - 1, bottom) \/ InSlice(x - 1, right)
            THEN Exactly(0) ELSE img[y][x]]]

\* The two corners of the padded box, with the third point, in image coordinates
BoxTriangle(xmin, ymin, xmax, ymax, pad_size) ==
    LET p0 == <<R(xmin - pad_size[2]), R(ymin - pad_size[1])>>
        p1 == <<R(xmax + pad_size[2]), R(ymax + pad_size[1])>>
    IN  <<p0, p1, get_3rd_point(p0, p1)>>

\* The two corners of the resH x resW buffer, with the third point
BufferTriangle(resH, resW) ==
    LET p0 == <<R(0), R(0)>>
        p1 == <<R(resW - 1), R(resH - 1)>>
    IN  <<p0, p1, get_3rd_point(p0, p1)>>

\* trans of cv_cropBox for the integer box b = [xmin, ymin, xmax, ymax]
CropTrans(b, resH, resW) ==
    getAffineTransform(
        BoxTriangle(b[1], b[2], b[3] - 1, b[4] - 1,
                    CropPadSize(b[1], b[2], b[3] - 1, b[4] - 1, resH, resW)),
        BufferTriangle(resH, resW))

\* trans of cv_cropBoxInverse
PasteTrans(b, resH, resW) ==
    getAffineTransform(
        BufferTriangle(resH, resW),
        BoxTriangle(b[1], b[2], b[3] - 1, b[4] - 1,
                    PastePadSize(b[1], b[2], b[3] - 1, b[4] - 1, resH, resW)))

\* cv_cropBox(img, bbox, input_size): out is the crop, img the caller's image
\* after the call
cv_cropBox(img, b, in_size) ==
    LET zeroed == PaddingZeros(img, b[1], b[2], b[3] - 1, b[4] - 1)
    IN  [out |-> warpAffine(zeroed, CropTrans(b, in_size[1], in_size[2]),
                            in_size[2], in_size[1]),
         img |-> zeroed]

\* The box fix_cropBox hands to cv_cropBox and returns: the box widened or
\* heightened to the aspect ratio of input_size, each entry through int()
FixBox(b, in_size) ==
    LET xmin == b[1]
        ymin == b[2]
        xmax == b[3]
        ymax == b[4]
        input_ratio == Rat(in_size[1], in_size[2])
        bbox_ratio == RDiv(RSub(ymax, ymin), RSub(xmax, xmin))
        cx == RDiv(RAdd(xmax, xmin), R(2))
        cy == RDiv(RAdd(ymax, ymin), R(2))
        wide == RDiv(RSub(ymax, ymin), input_ratio)
        high == RMul(RSub(xmax, xmin), input_ratio)
    IN  IF RLt(input_ratio, bbox_ratio)
        THEN <<RTrunc(RSub(cx, RDiv(wide, R(2)))), RTrunc(ymin),
               RTrunc(RAdd(cx, RDiv(wide, R(2)))), RTrunc(ymax)>>
        ELSE IF RLt(bbox_ratio, input_ratio)
        THEN <<RTrunc(xmin), RTrunc(RSub(cy, RDiv(high, R(2)))),
               RTrunc(xmax), RTrunc(RAdd(cy, RDiv(high, R(2))))>>
        ELSE <<RTrunc(xmin), RTrunc(ymin), RTrunc(xmax), RTrunc(ymax)>>

\* fix_cropBox(img, bbox, input_size)
fix_cropBox(img, b, in_size) ==
    LET r == cv_cropBox(img, FixBox(b, in_size), in_size)
    IN  [out |-> r.out, bbox |-> FixBox(b, in_size), img |-> r.img]

\* cv_cropBoxInverse(inp, bbox, img_size, output_size)
cv_cropBoxInverse(inp, b, img_size, out_size) ==
    warpAffine(inp, PasteTrans(b, out_size[1], out_size[2]), img_size[2], img_size[1])

VARIABLES
    bbox,       \* the caller's box list [xmin, ymin, xmax, ymax]
    bbox0,      \* its value when the caller built it
    imgwidth, imght, train, sf,
    boxret,     \* what the last box_transform call returned
    gimg,       \* the caller's heatmap array given to drawGaussian (img)
    gimg0,      \* its value when the caller built it
    pt, sigma,
    graised,    \* whether the last drawGaussian call raised
    heatmap,    \* the caller's heatmap tensor given to flip_heatmap
    heatmap0,   \* its value when the caller built it
    shift,
    flipout,    \* what the last flip_heatmap call returned
    joints_3d,  \* the caller's joints array given to flip_joints_3d
    joints_3d0, \* its value when the caller built it
    width,
    jointsout,  \* what the last flip_joints_3d call returned
    center, scale, rot, output_size, ashift,   \* arguments of get_affine_transform
    trans,      \* the matrix get_affine_transform returned for inv=0
    itrans,     \* the matrix it returned for inv=1
    apt,        \* a point of the source image
    fwdpt,      \* affine_transform(apt, trans)
    backpt,     \* affine_transform(fwdpt, itrans)
    have,       \* which of trans, itrans, fwdpt, backpt have been computed
    preset,     \* cfg.MODEL.EXTRA.PRESET
    decoder,    \* what get_func_heatmap_to_coord returned or raised
    hms,        \* the caller's heatmaps given to the decoders
    hms0,       \* their value when the caller built them
    dbbox,      \* the box given to the decoders
    decoded,    \* what the last single-peak decoder call returned
    peaks,      \* what the last multipeak_heatmap_to_coord call returned
    cimg,       \* the caller's image given to fix_cropBox (img)
    cimg0,      \* its value when the caller built it
    cbbox,      \* the box given to fix_cropBox
    input_size, \* (height, width) of the crop
    cropped,    \* what the last fix_cropBox call returned: the crop and the box
    pasted,     \* what cv_cropBoxInverse returned for that crop and box
    calls       \* calls made so far

vars == <<bbox, bbox0, imgwidth, imght, train, sf, boxret,
          gimg, gimg0, pt, sigma, graised,
          heatmap, heatmap0, shift, flipout,
          joints_3d, joints_3d0, width, jointsout,
          center, scale, rot, output_size, ashift, trans, itrans, apt, fwdpt, backpt, have,
          preset, decoder, hms, hms0, dbbox, decoded, peaks,
          cimg, cimg0, cbbox, input_size, cropped, pasted,
          calls>>
cropVars == <<cimg, cimg0, cbbox, input_size, cropped, pasted>>
decVars == <<preset, decoder, hms, hms0, dbbox, decoded, peaks>>
affVars == <<center, scale, rot, output_size, ashift, trans, itrans, apt, fwdpt, backpt, have>>
flipVars == <<heatmap, heatmap0, shift, flipout>>
jointVars == <<joints_3d, joints_3d0, width, jointsout>>
boxVars == <<bbox, bbox0, imgwidth, imght, train, sf, boxret>>
gaussVars == <<gimg, gimg0, pt, sigma, graised>>

NoBox == <<R(0), R(0), R(0), R(0)>>
BoxCoords == 0 .. MaxDim
\* values np.random.randn() may return
RandnSamples == {Rat(-3, 1), Rat(-1, 2), R(0), Rat(1, 2), Rat(3, 1)}

BlankImg(h, w) == [y \in 1 .. h |-> [x \in 1 .. w |-> OldCell]]
GaussIdle ==
    /\ gimg = BlankImg(1, 1) /\ gimg0 = gimg
    /\ pt = <<R(0), R(0)>> /\ sigma = 1 /\ graised = FALSE
\* A 3-D tensor of the 17 channels, h rows and w columns, zero everywhere but
\* for the cells (c, y, x) of spikes, a set of <<c, y, x, value>>.
Tensor3(h, w, spikes) ==
    [c \in 1 .. Cardinality(EVAL_JOINTS) |-> [y \in 1 .. h |-> [x \in 1 .. w |->
        IF \E sp \in spikes : sp[1] = c /\ sp[2] = y /\ sp[3] = x
        THEN (CHOOSE sp \in spikes : sp[1] = c /\ sp[2] = y /\ sp[3] = x)[4]
        ELSE 0]]]
\* Joint j at (j, 2j, 0), x and y visible
PlainJoints ==
    [j \in 1 .. Cardinality(EVAL_JOINTS) |-> << <<j - 1, 1>>, <<2 * (j - 1), 1>>, <<0, 0>> >>]
FlipIdle ==
    /\ heatmap = [dim |-> 3, t |-> Tensor3(1, 1, {})] /\ heatmap0 = heatmap
    /\ shift = FALSE /\ flipout = heatmap
JointsIdle ==
    /\ joints_3d = PlainJoints /\ joints_3d0 = joints_3d
    /\ width = 1 /\ jointsout = joints_3d
ZeroMatrix == << <<R(0), R(0), R(0)>>, <<R(0), R(0), R(0)>> >>
Origin == <<R(0), R(0)>>
AffineUnsolved ==
    /\ trans = ZeroMatrix /\ itrans = ZeroMatrix
    /\ fwdpt = Origin /\ backpt = Origin /\ have = {}
AffineIdle ==
    /\ center = <<R(1), R(1)>> /\ scale = <<R(2), R(2)>> /\ rot = <<R(1), R(0)>>
    /\ output_size = <<R(2), R(2)>> /\ ashift = Origin /\ apt = Origin
    /\ AffineUnsolved
\* A channel of h rows and w columns holding base everywhere but for the cells
\* of spikes, a set of <<y, x, value>> (1-based)
Channel(h, w, base, spikes) ==
    [y \in 1 .. h |-> [x \in 1 .. w |->
        IF \E sp \in spikes : sp[1] = y /\ sp[2] = x
        THEN (CHOOSE sp \in spikes : sp[1] = y /\ sp[2] = x)[3]
        ELSE base]]
NotDecoded == [func |-> "none", coords |-> <<>>, preds |-> <<>>, maxvals |-> <<>>, hms |-> <<>>]
NoPeaks == [func |-> "none", cands |-> <<>>, coords |-> <<>>, hms |-> <<>>]
NotSelected == [func |-> "unset", raised |-> "none"]
DecodeUnused == decoder = NotSelected /\ decoded = NotDecoded /\ peaks = NoPeaks
DecodeIdle ==
    /\ preset = "simple"
    /\ hms = <<Channel(1, 1, 0, {})>> /\ hms0 = hms
    /\ dbbox = <<R(0), R(0), R(1), R(1)>>
    /\ DecodeUnused
\* An h x w image whose pixels are all different and none zero
Picture(h, w) == [y \in 1 .. h |-> [x \in 1 .. w |-> Exactly((y - 1) * w + x)]]
NotCropped == [out |-> <<>>, bbox |-> <<>>, done |-> FALSE]
CropUnused == cropped = NotCropped /\ pasted = <<>>
CropIdle ==
    /\ cimg = Picture(1, 1) /\ cimg0 = cimg
    /\ cbbox = <<R(0), R(0), R(1), R(1)>> /\ input_size = <<1, 1>>
    /\ CropUnused
BoxIdle ==
    /\ bbox = <<R(0), R(0), R(1), R(1)>> /\ bbox0 = bbox
    /\ imgwidth = 1 /\ imght = 1 /\ train = FALSE /\ sf = R(0) /\ boxret = NoBox

InitBox ==
    /\ \E x0 \in BoxCoords, x1 \in BoxCoords, y0 \in BoxCoords, y1 \in BoxCoords :
          /\ x0 < x1 /\ y0 < y1
          /\ bbox = <<R(x0), R(y0), R(x1), R(y1)>>
    /\ bbox0 = bbox
    /\ imgwidth = MaxDim /\ imght \in {MaxDim - 1, MaxDim}
    /\ train \in BOOLEAN
    /\ sf = Rat(1, 2)
    /\ boxret = NoBox
    /\ GaussIdle /\ FlipIdle /\ JointsIdle /\ AffineIdle /\ DecodeIdle /\ CropIdle
    /\ calls = 0

BoxTransform ==
    /\ calls < MaxCalls
    /\ \E randn \in (IF train THEN RandnSamples ELSE {R(0)}) :
          bbox' = box_transform(bbox, sf, imgwidth, imght, train, randn)
    /\ boxret' = bbox'
    /\ calls' = calls + 1
    /\ UNCHANGED <<bbox0, imgwidth, imght, train, sf>>
    /\ UNCHANGED <<gaussVars, flipVars, jointVars, affVars, decVars, cropVars>>

NextBox == BoxTransform
SpecBox == InitBox /\ [][NextBox]_vars

\* C1: box_transform with train=False returns a box at least 5 wide and 5
\* high whose coordinates lie within [0, imgwidth] x [0, imght].
C1_BoxMinExtent ==
    (calls > 0 /\ ~train) =>
        /\ RLe(R(5), RSub(boxret[3], boxret[1]))
        /\ RLe(R(5), RSub(boxret[4], boxret[2]))
        /\ RLe(R(0), boxret[1]) /\ RLe(boxret[3], R(imgwidth))
        /\ RLe(R(0), boxret[2]) /\ RLe(boxret[4], R(imght))

\* ------------------------------------------------------------------------
\* drawGaussian on a caller-held heatmap
\* ------------------------------------------------------------------------
\* Points in half pixels, from beyond the kernel's reach on one side of the
\* heatmap to beyond it on the other.
GaussPts == {Rat(n, 2) : n \in (0 - 2 * (3 * MaxSigma + 2)) .. 2 * (GaussDim + 3 * MaxSigma + 2)}

InitGauss ==
    /\ gimg = BlankImg(GaussDim - 1, GaussDim) /\ gimg0 = gimg
    /\ pt \in GaussPts \X GaussPts
    /\ sigma \in 1 .. MaxSigma
    /\ graised = FALSE
    /\ BoxIdle /\ FlipIdle /\ JointsIdle /\ AffineIdle /\ DecodeIdle /\ CropIdle
    /\ calls = 0

DrawGaussian ==
    /\ calls < MaxCalls
    /\ LET r == drawGaussian(gimg, pt, sigma)
       IN  gimg' = r.img /\ graised' = r.raised
    /\ calls' = calls + 1
    /\ UNCHANGED <<gimg0, pt, sigma>>
    /\ UNCHANGED <<boxVars, flipVars, jointVars, affVars, decVars, cropVars>>

NextGauss == DrawGaussian
SpecGauss == InitGauss /\ [][NextGauss]_vars

PtInside == /\ RLe(R(0), pt[1]) /\ RLe(pt[1], R(Cols(gimg) - 1))
            /\ RLe(R(0), pt[2]) /\ RLe(pt[2], R(Rows(gimg) - 1))

\* C2: after drawGaussian(h, pt, sigma) with sigma >= 1 and pt (integer or
\* fractional) inside the heatmap, the cell at (round(pt.y), round(pt.x)) is
\* exactly 1.0.
C2_PeakAtRoundedPt ==
    (calls > 0 /\ PtInside) =>
        gimg[RRound(pt[2]) + 1][RRound(pt[1]) + 1] = GaussCell(0)

\* The cell with 0-based index c lies in a window of 6 * sigma + 1 cells
\* around the coordinate p (for an integer p: p - 3 sigma .. p + 3 sigma)
NearPt(c, p) ==
    RLt(RSub(p, R(3 * sigma + 1)), R(c)) /\ RLt(R(c), RAdd(p, R(3 * sigma + 1)))
InKernelBox(x, y) == NearPt(x, pt[1]) /\ NearPt(y, pt[2])

\* C10: drawGaussian never raises, and every heatmap cell outside the kernel's
\* bounding box around the point keeps its previous value; when no cell of the
\* heatmap lies in that box the heatmap is unchanged.
C10_CellsOutsideKernelKept ==
    calls > 0 =>
        /\ ~graised
        /\ \A y \in 1 .. Rows(gimg0) : \A x \in 1 .. Cols(gimg0) :
              ~InKernelBox(x - 1, y - 1) => gimg[y][x] = gimg0[y][x]

\* A kernel whose box ends just left of the heatmap (br.x = 0: the early
\* return is not taken), and one that covers the top-left corner only
C10_Witness ==
    /\ calls > 0 /\ ~graised
    /\ \/ GaussBR(pt, sigma)[1] = 0 /\ GaussUL(pt, sigma)[2] = 0 /\ gimg = gimg0
       \/ /\ GaussBR(pt, sigma) = <<1, 1>>
          /\ gimg[1][1] # OldCell /\ gimg[1][2] = OldCell /\ gimg[2][1] = OldCell

\* ------------------------------------------------------------------------
\* flip_heatmap and flip_joints_3d on caller-held tensors
\* ------------------------------------------------------------------------
\* Heatmaps with one cell set to 1 anywhere and possibly a second set to 2 in
\* the first row of channels 0, 1 or 2; a 4-D tensor is a batch of two, the
\* second item carrying the first spike.
FlipInputs ==
    LET cells == (1 .. Cardinality(EVAL_JOINTS)) \X (1 .. FlipH) \X (1 .. FlipW)
        seconds == {{}} \cup {{<<c, 1, x, 2>>} : c \in 1 .. 3, x \in 1 .. FlipW}
        one(a) == {<<a[1], a[2], a[3], 1>>}
    IN  {[dim |-> 3, t |-> Tensor3(FlipH, FlipW, one(a) \cup b)] : a \in cells, b \in seconds}
        \cup {[dim |-> 4, t |-> <<Tensor3(FlipH, FlipW, b), Tensor3(FlipH, FlipW, one(a))>>] :
                a \in cells, b \in seconds}

InitFlip ==
    /\ heatmap \in FlipInputs /\ heatmap0 = heatmap
    /\ shift \in BOOLEAN
    /\ flipout = heatmap
    /\ BoxIdle /\ GaussIdle /\ JointsIdle /\ AffineIdle /\ DecodeIdle /\ CropIdle
    /\ calls = 0

\* The caller flips its heatmap, and then flips the result again.
FlipHeatmap ==
    /\ calls < MaxCalls
    /\ \E overlap \in (IF shift THEN {"buffered", "forward"} ELSE {"buffered"}) :
          LET r == flip_heatmap(IF calls = 0 THEN heatmap ELSE flipout,
                                joint_pairs, shift, overlap)
          IN  /\ flipout' = r.out
              /\ heatmap' = IF calls = 0 THEN r.heatmap ELSE heatmap
    /\ calls' = calls + 1
    /\ UNCHANGED <<heatmap0, shift>>
    /\ UNCHANGED <<boxVars, gaussVars, jointVars, affVars, decVars, cropVars>>

NextFlip == FlipHeatmap
SpecFlip == InitFlip /\ [][NextFlip]_vars

\* The channel a channel is paired with (itself when unpaired), 1-based
Partner(c) ==
    IF \E k \in 1 .. Len(joint_pairs) : joint_pairs[k][1] + 1 = c
    THEN joint_pairs[CHOOSE k \in 1 .. Len(joint_pairs) : joint_pairs[k][1] + 1 = c][2] + 1
    ELSE IF \E k \in 1 .. Len(joint_pairs) : joint_pairs[k][2] + 1 = c
    THEN joint_pairs[CHOOSE k \in 1 .. Len(joint_pairs) : joint_pairs[k][2] + 1 = c][1] + 1
    ELSE c

Mirrored3(out, in) ==
    \A c \in 1 .. Len(in) : \A y \in 1 .. Len(in[c]) : \A x \in 1 .. Len(in[c][y]) :
        out[c][y][x] = in[Partner(c)][y][Len(in[c][y]) + 1 - x]

\* C3: with shift=False one flip_heatmap call reverses the width axis and
\* exchanges the channels of each joint pair, and two calls give back the
\* heatmap, for 3-D and 4-D heatmaps.
C3_FlipTwiceIsIdentity ==
    ~shift =>
        /\ calls = 1 =>
              IF heatmap.dim = 3 THEN Mirrored3(flipout.t, heatmap.t)
              ELSE \A b \in 1 .. Len(heatmap.t) : Mirrored3(flipout.t[b], heatmap.t[b])
        /\ calls = 2 => flipout = heatmap0

\* A 4-D heatmap flipped twice whose spike sits in a paired channel
C3_Witness ==
    /\ calls = 2 /\ ~shift /\ heatmap.dim = 4
    /\ \E y \in 1 .. FlipH, x \in 1 .. FlipW : heatmap0.t[2][2][y][x] = 1
    /\ flipout = heatmap0

\* ------------------------------------------------------------------------
\* flip_joints_3d on a caller-held joint array
\* ------------------------------------------------------------------------
\* PlainJoints with one joint given a z coordinate and any visibility flags
JointInputs ==
    {[PlainJoints EXCEPT ![j] = << <<j - 1, v[1]>>, <<2 * (j - 1), v[2]>>, <<z, v[3]>> >>] :
        j \in 1 .. Cardinality(EVAL_JOINTS), v \in {0, 1} \X {0, 1} \X {0, 1}, z \in {0, 3}}

InitJoints ==
    /\ joints_3d \in JointInputs /\ joints_3d0 = joints_3d
    /\ width \in {Cardinality(EVAL_JOINTS), Cardinality(EVAL_JOINTS) + FlipW}
    /\ jointsout = joints_3d
    /\ BoxIdle /\ GaussIdle /\ FlipIdle /\ AffineIdle /\ DecodeIdle /\ CropIdle
    /\ calls = 0

FlipJoints3d ==
    /\ calls < MaxCalls
    /\ LET r == flip_joints_3d(joints_3d, width, joint_pairs)
       IN  jointsout' = r.joints /\ joints_3d' = r.joints_3d
    /\ calls' = calls + 1
    /\ UNCHANGED <<joints_3d0, width>>
    /\ UNCHANGED <<boxVars, gaussVars, flipVars, affVars, decVars, cropVars>>

NextJoints == FlipJoints3d
SpecJoints == InitJoints /\ [][NextJoints]_vars

\* C15 as stated: entry i of the result holds the data of the input joint
\* paired with i (of i itself when unpaired), x replaced by (width - x - 1)
\* times its visibility flag, the y-coordinate and all visibility flags unchanged.
C15_FlipJointsGatesXOnly ==
    calls > 0 =>
        \A j \in 1 .. Len(joints_3d0) :
            LET in == joints_3d0[Partner(j)]
            IN  /\ jointsout[j][1] = <<(width - in[1][1] - 1) * in[1][2], in[1][2]>>
                /\ jointsout[j][2] = in[2]
                /\ jointsout[j][3][2] = in[3][2]

\* C15 amended: entry i of the result holds the data of the input joint paired
\* with i (of i itself when unpaired), x replaced by width - x - 1, and then
\* each of the three coordinates multiplied by its own visibility flag, the
\* visibility flags unchanged.
C15_FlipJointsGatesEveryCoordinate ==
    calls > 0 =>
        \A j \in 1 .. Len(joints_3d0) :
            LET in == joints_3d0[Partner(j)]
            IN  /\ jointsout[j][1] = <<(width - in[1][1] - 1) * in[1][2], in[1][2]>>
                /\ jointsout[j][2] = <<in[2][1] * in[2][2], in[2][2]>>
                /\ jointsout[j][3] = <<in[3][1] * in[3][2], in[3][2]>>

\* A paired joint whose y is not visible and whose x is: its partner's entry
\* has the mirrored x and a zero y
C15_Witness ==
    /\ calls > 0
    /\ \E j \in 2 .. Len(joints_3d0) :
          /\ joints_3d0[j][2] = <<2 * (j - 1), 0>> /\ joints_3d0[j][1][2] = 1
          /\ Partner(j) # j
          /\ jointsout[Partner(j)][2] = <<0, 0>>
          /\ jointsout[Partner(j)][1] = <<width - j, 1>>

\* ------------------------------------------------------------------------
\* get_affine_transform and affine_transform
\* ------------------------------------------------------------------------
\* Rotations, as <<cos, sin>>: 0, 90, 180 and -90 degrees, and the angle whose
\* cosine is 4/5 (about 36.87 degrees)
Rotations == {<<R(1), R(0)>>, <<R(0), R(1)>>, <<R(-1), R(0)>>, <<R(0), R(-1)>>,
              <<Rat(4, 5), Rat(3, 5)>>}

InitAffine ==
    /\ center \in {<<R(0), R(1)>>, <<R(AffDim), R(AffDim - 1)>>}
    /\ scale \in {<<R(w), R(h)>> : w \in {1, AffDim}, h \in {2, AffDim}}
    /\ rot \in Rotations
    /\ output_size \in {<<R(AffDim), R(AffDim)>>, <<R(AffDim - 1), R(AffDim + 1)>>}
    /\ ashift \in {Origin, <<Rat(1, 2), R(0)>>, <<Rat(-1, 4), Rat(1, 4)>>}
    /\ apt \in {Origin, <<R(AffDim), R(1)>>, <<Rat(3, 2), R(AffDim)>>}
    /\ AffineUnsolved
    /\ BoxIdle /\ GaussIdle /\ FlipIdle /\ JointsIdle /\ DecodeIdle /\ CropIdle
    /\ calls = 0

GetAffineTransform ==
    /\ \E inv \in BOOLEAN :
          LET t == get_affine_transform(center, scale, rot, output_size, ashift, inv)
          IN  IF inv
              THEN /\ "itrans" \notin have
                   /\ itrans' = t /\ have' = have \cup {"itrans"} /\ UNCHANGED trans
              ELSE /\ "trans" \notin have
                   /\ trans' = t /\ have' = have \cup {"trans"} /\ UNCHANGED itrans
    /\ UNCHANGED <<center, scale, rot, output_size, ashift, apt, fwdpt, backpt, calls>>
    /\ UNCHANGED <<boxVars, gaussVars, flipVars, jointVars, decVars, cropVars>>

AffineTransform ==
    /\ \/ /\ "trans" \in have /\ "fwdpt" \notin have
          /\ fwdpt' = affine_transform(apt, trans)
          /\ have' = have \cup {"fwdpt"} /\ UNCHANGED backpt
       \/ /\ "itrans" \in have /\ "fwdpt" \in have /\ "backpt" \notin have
          /\ backpt' = affine_transform(fwdpt, itrans)
          /\ have' = have \cup {"backpt"} /\ UNCHANGED fwdpt
    /\ UNCHANGED <<center, scale, rot, output_size, ashift, apt, trans, itrans, calls>>
    /\ UNCHANGED <<boxVars, gaussVars, flipVars, jointVars, decVars, cropVars>>

NextAffine == GetAffineTransform \/ AffineTransform
SpecAffine == InitAffine /\ [][NextAffine]_vars

OutputCentre == <<RMul(output_size[1], Rat(1, 2)), RMul(output_size[2], Rat(1, 2))>>

\* C6 as stated: the inv=1 transform undoes the inv=0 transform on every
\* point, and the forward transform maps the box centre to the centre of the
\* output, whatever the shift.
C6_RoundTripAndCentre ==
    /\ "backpt" \in have => backpt = apt
    /\ "trans" \in have => affine_transform(center, trans) = OutputCentre

\* C6 amended: the inv=1 transform undoes the inv=0 transform on every point,
\* and the forward transform maps center + scale * shift (the box centre when
\* the shift is zero) to the centre of the output.
C6_RoundTripAndShiftedCentre ==
    /\ "backpt" \in have => backpt = apt
    /\ "trans" \in have =>
          affine_transform(VAdd(center, VMul(scale, ashift)), trans) = OutputCentre

\* A rotated, shifted, non-square case taken forward and back
C6_Witness ==
    /\ "backpt" \in have /\ backpt = apt /\ fwdpt # apt
    /\ rot = <<Rat(4, 5), Rat(3, 5)>> /\ ashift # Origin
    /\ output_size[1] # output_size[2]

\* ------------------------------------------------------------------------
\* The heatmap decoders
\* ------------------------------------------------------------------------
\* Two channels.  The first holds 0 or 0.05 everywhere, possibly with one spike
\* of 1.0, 0.5 or 0.08, or with a spike of 1.0 or 0.5 and a second spike of 0.5
\* elsewhere in the same row or column; the second is 0.05 everywhere, or 0
\* with a spike of 1.0 in its last cell.
DecChannels ==
    LET cells == (1 .. DecH) \X (1 .. DecW)
        first == {Channel(DecH, DecW, base, {}) : base \in {0, 5}}
                 \cup {Channel(DecH, DecW, base, {<<a[1], a[2], v>>}) :
                         base \in {0, 5}, v \in {100, 50, 8}, a \in cells}
                 \cup {Channel(DecH, DecW, base, {<<p[1][1], p[1][2], v>>, <<p[2][1], p[2][2], 50>>}) :
                         base \in {0, 5}, v \in {100, 50},
                         p \in {q \in cells \X cells :
                                  q[1] # q[2] /\ (q[1][1] = q[2][1] \/ q[1][2] = q[2][2])}}
        second == {Channel(DecH, DecW, 5, {}), Channel(DecH, DecW, 0, {<<DecH, DecW, 100>>})}
    IN  {<<f, g>> : f \in first, g \in second}

InitDecode ==
    /\ hms \in DecChannels /\ hms0 = hms
    /\ dbbox = <<R(1), R(2), R(5), R(8)>>
    /\ preset = "simple"
    /\ DecodeUnused
    /\ BoxIdle /\ GaussIdle /\ FlipIdle /\ JointsIdle /\ AffineIdle /\ CropIdle
    /\ calls = 0

decFrame == UNCHANGED <<boxVars, gaussVars, flipVars, jointVars, affVars, cropVars, calls>>

\* The caller decodes its heatmaps once, with one of the decoders.
\* A call of the single-peak decoder f on the caller's heatmaps
HeatmapToCoord(f) ==
    /\ decoded = NotDecoded /\ peaks = NoPeaks
    /\ LET r == IF f = "heatmap_to_coord_simple" THEN heatmap_to_coord_simple(hms, dbbox)
                ELSE heatmap_to_coord_rmpe(hms, dbbox)
       IN  decoded' = [r EXCEPT !.hms = <<>>] /\ hms' = r.hms
    /\ UNCHANGED <<preset, decoder, hms0, dbbox, peaks>>
    /\ decFrame

HeatmapToCoordSimple == HeatmapToCoord("heatmap_to_coord_simple")
HeatmapToCoordRmpe == HeatmapToCoord("heatmap_to_coord_rmpe")

MultipeakHeatmapToCoord ==
    /\ decoded = NotDecoded /\ peaks = NoPeaks
    /\ LET r == multipeak_heatmap_to_coord(hms, dbbox)
       IN  peaks' = [r EXCEPT !.hms = <<>>] /\ hms' = r.hms
    /\ UNCHANGED <<preset, decoder, hms0, dbbox, decoded>>
    /\ decFrame

NextDecode == HeatmapToCoordSimple \/ HeatmapToCoordRmpe \/ MultipeakHeatmapToCoord
SpecDecode == InitDecode /\ [][NextDecode]_vars

\* Channel k of the caller's heatmaps is 1.0 at (py, px) (1-based) and 0 elsewhere
OneHotAt(k, py, px) ==
    \A y \in 1 .. Rows(hms0[k]) : \A x \in 1 .. Cols(hms0[k]) :
        hms0[k][y][x] = IF y = py /\ x = px THEN 100 ELSE 0

WithinQuarter(a, n) == RLe(Rat(4 * n - 1, 4), a) /\ RLe(a, Rat(4 * n + 1, 4))

\* C4: for a channel that is 1.0 at one cell (px, py) and 0 elsewhere, border
\* and corner cells included, heatmap_to_coord_simple's heatmap-space
\* coordinate is within 0.25 of (px, py) on each axis and the confidence is 1.0.
C4_SimpleDecodeOfSinglePeak ==
    decoded.func = "heatmap_to_coord_simple" =>
        \A k \in 1 .. Len(hms0) : \A py \in 1 .. DecH : \A px \in 1 .. DecW :
            OneHotAt(k, py, px) =>
                /\ WithinQuarter(decoded.coords[k][1], px - 1)
                /\ WithinQuarter(decoded.coords[k][2], py - 1)
                /\ decoded.maxvals[k] = 100

\* A single peak in the bottom-right corner of the first channel, decoded
C4_Witness ==
    /\ decoded.func = "heatmap_to_coord_simple"
    /\ OneHotAt(1, DecH, DecW)
    /\ decoded.coords[1] = <<R(DecW - 1), R(DecH - 1)>>

AllCells(k, v) ==
    \A y \in 1 .. Rows(hms0[k]) : \A x \in 1 .. Cols(hms0[k]) : hms0[k][y][x] = v

\* C5: when every cell of the heatmap is 0.05, get_peak returns one candidate
\* for every channel, the position and value get_max_pred gives for it, and
\* multipeak_heatmap_to_coord reports one point for every channel.
C5_MultipeakFallback ==
    (peaks.func = "multipeak_heatmap_to_coord" /\ \A k \in 1 .. Len(hms0) : AllCells(k, 5)) =>
        \A k \in 1 .. Len(hms0) :
            /\ Len(peaks.cands[k]) = 1
            /\ peaks.cands[k][1] = <<get_max_pred(hms0).preds[k][1],
                                     get_max_pred(hms0).preds[k][2],
                                     get_max_pred(hms0).maxvals[k]>>
            /\ peaks.cands[k][1] = <<0, 0, 5>>
            /\ Len(peaks.coords[k]) = 1

C5_Witness ==
    /\ peaks.func = "multipeak_heatmap_to_coord"
    /\ \A k \in 1 .. Len(hms0) : AllCells(k, 5)
    /\ Len(hms0) = 2 /\ Len(peaks.coords[2]) = 1

\* The point the quarter-pixel correction is said to give for the peak (px, py)
\* (0-based) of channel hm: corrected whenever 1 <= px <= W-2 and 1 <= py <= H-2
CorrectedInsideBorder(hm, px, py) ==
    IF 1 <= px /\ px <= Cols(hm) - 2 /\ 1 <= py /\ py <= Rows(hm) - 2
    THEN <<Rat(4 * px + Sign(hm[py + 1][px + 2] - hm[py + 1][px]), 4),
           Rat(4 * py + Sign(hm[py + 2][px + 1] - hm[py][px + 1]), 4)>>
    ELSE <<R(px), R(py)>>

\* C12: in the simple, RMPE and multi-peak decoders every peak (px, py) with
\* 1 <= px <= W-2 and 1 <= py <= H-2 is moved by a quarter pixel along the
\* sign of the horizontal and of the vertical difference of its neighbours,
\* and a peak on the outermost row or column is left where it is.
C12_QuarterPixelInsideBorder ==
    /\ decoded.func # "none" =>
          \A k \in 1 .. Len(hms0) :
              decoded.coords[k] = CorrectedInsideBorder(hms0[k], get_max_pred(hms0).preds[k][1],
                                                        get_max_pred(hms0).preds[k][2])
    /\ peaks.func # "none" =>
          \A k \in 1 .. Len(hms0) :
              <<peaks.coords[k][1][1], peaks.coords[k][1][2]>> =
                  transform_preds(CorrectedInsideBorder(hms0[k], peaks.cands[k][1][1],
                                                        peaks.cands[k][1][2]),
                                  BoxCenter(dbbox), BoxScale(dbbox),
                                  <<R(Cols(hms0[k])), R(Rows(hms0[k]))>>)

\* The candidate c = <<x, y, value>> of channel hm holds the value of its cell,
\* above 0.1, and no cell within two rows and two columns of it holds more
IsWindowPeak(hm, c) ==
    /\ c[3] = hm[c[2] + 1][c[1] + 1] /\ c[3] > 10
    /\ \A y \in 1 .. Rows(hm) : \A x \in 1 .. Cols(hm) :
          (Abs(y - 1 - c[2]) <= 2 /\ Abs(x - 1 - c[1]) <= 2) => hm[y][x] <= c[3]

\* C14: the candidates get_peak returns for a channel are in order of
\* non-increasing value, equal values in a fixed order of their positions (the
\* larger y first, then the larger x); unless the list is the single fallback
\* candidate, each is above 0.1 and the maximum of the 5x5 window around it.
C14_PeaksRankedByValue ==
    peaks.func = "multipeak_heatmap_to_coord" =>
        \A k \in 1 .. Len(hms0) :
            LET c == peaks.cands[k]
            IN  /\ \A i \in 1 .. Len(c) : \A j \in 1 .. Len(c) :
                      i < j =>
                          /\ c[i][3] >= c[j][3]
                          /\ c[i][3] = c[j][3] =>
                                \/ c[i][2] > c[j][2]
                                \/ c[i][2] = c[j][2] /\ c[i][1] > c[j][1]
                /\ (Len(c) > 1 \/ c[1][3] > 10) =>
                      \A i \in 1 .. Len(c) : IsWindowPeak(hms0[k], c[i])

\* Two peaks of equal value in one column, as well as a channel whose two
\* peaks differ in value
C14_Witness ==
    /\ peaks.func = "multipeak_heatmap_to_coord"
    /\ Len(peaks.cands[1]) = 2
    /\ \/ /\ peaks.cands[1][1][3] = peaks.cands[1][2][3]
          /\ peaks.cands[1][1][2] > peaks.cands[1][2][2]
       \/ peaks.cands[1][1][3] > peaks.cands[1][2][3]

\* ------------------------------------------------------------------------
\* process_peak on a candidate list
\* ------------------------------------------------------------------------
\* Candidate lists <<x, y, value>> of one to three entries, at an interior
\* cell or at the corner, values 1.0, 0.1, 0.08 and 0.05 in any order
CandLists ==
    LET cand == {<<xy[1], xy[2], v>> : xy \in {<<2, 2>>, <<0, 0>>}, v \in {100, 10, 8, 5}}
    IN  {<<a>> : a \in cand} \cup {<<a, b>> : a \in cand, b \in cand}
        \cup {<<a, b, c>> : a \in cand, b \in cand, c \in cand}

InitPeak ==
    /\ hms \in {<<Channel(DecH, DecW, base, {<<3, 3, 100>>})>> : base \in {0, 5}}
    /\ hms0 = hms
    /\ dbbox = <<R(1), R(2), R(5), R(8)>>
    /\ preset = "simple"
    /\ DecodeUnused
    /\ BoxIdle /\ GaussIdle /\ FlipIdle /\ JointsIdle /\ AffineIdle /\ CropIdle
    /\ calls = 0

\* The caller hands process_peak a candidate list for its first channel
ProcessPeak ==
    /\ peaks = NoPeaks
    /\ \E pc \in CandLists :
          peaks' = [func |-> "process_peak", cands |-> <<pc>>,
                    coords |-> <<process_peak(pc, hms[1], dbbox)>>, hms |-> <<>>]
    /\ UNCHANGED <<preset, decoder, hms, hms0, dbbox, decoded>>
    /\ decFrame

NextPeak == ProcessPeak
SpecPeak == InitPeak /\ [][NextPeak]_vars

\* The candidates among the first i of c that are accepted when a candidate is
\* discarded exactly if its value is below 0.1 and one was accepted before it
RECURSIVE AcceptedAmong(_, _)
AcceptedAmong(c, i) ==
    IF i = 0 THEN {}
    ELSE LET before == AcceptedAmong(c, i - 1)
         IN  IF c[i][3] < 10 /\ before # {} THEN before ELSE before \cup {i}

\* C13: process_peak discards a candidate exactly when its value is below 0.1
\* and a candidate was accepted before it; the accepted candidates are reported
\* in order, one below 0.1 with confidence 1e-5 and any other with its own
\* value, and the result of a non-empty list is not empty.
C13_ProcessPeakKeepsAndDiscards ==
    peaks.func = "process_peak" =>
        LET c == peaks.cands[1]
            res == peaks.coords[1]
            acc == AcceptedAmong(c, Len(c))
        IN  /\ Len(res) = Cardinality(acc)
            /\ Len(res) > 0
            /\ \A i \in acc :
                  res[Cardinality({j \in acc : j <= i})][3] =
                      IF c[i][3] < 10 THEN Rat(1, 100000) ELSE Rat(c[i][3], 100)

\* A weak candidate accepted first, a weak one discarded, a strong one accepted
C13_Witness ==
    /\ peaks.func = "process_peak"
    /\ Len(peaks.cands[1]) = 3 /\ Len(peaks.coords[1]) = 2
    /\ peaks.cands[1][1][3] = 8 /\ peaks.cands[1][2][3] = 5 /\ peaks.cands[1][3][3] = 10
    /\ peaks.coords[1][1][3] = Rat(1, 100000) /\ peaks.coords[1][2][3] = Rat(1, 10)

\* ------------------------------------------------------------------------
\* fix_cropBox and cv_cropBoxInverse on a caller-held image
\* ------------------------------------------------------------------------
\* Boxes inside the image, at least two pixels wide and high
CropBoxes ==
    {<<R(b[1]), R(b[2]), R(b[3]), R(b[4])>> : b \in
        {c \in (0 .. CropDim) \X (0 .. CropDim) \X (0 .. CropDim) \X (0 .. CropDim) :
            c[1] + 2 <= c[3] /\ c[2] + 2 <= c[4]}}

InitCrop ==
    /\ cimg = Picture(CropDim, CropDim) /\ cimg0 = cimg
    /\ cbbox \in CropBoxes
    /\ input_size \in {<<2, 2>>, <<4, 2>>, <<3, 4>>}
    /\ CropUnused
    /\ BoxIdle /\ GaussIdle /\ FlipIdle /\ JointsIdle /\ AffineIdle /\ DecodeIdle
    /\ calls = 0

cropFrame == UNCHANGED <<boxVars, gaussVars, flipVars, jointVars, affVars, decVars>>

FixCropBox ==
    /\ calls < MaxCalls
    /\ LET r == fix_cropBox(cimg, cbbox, input_size)
       IN  /\ cropped' = [out |-> r.out, bbox |-> r.bbox, done |-> TRUE]
           /\ cimg' = r.img
    /\ pasted' = <<>>
    /\ calls' = calls + 1
    /\ UNCHANGED <<cimg0, cbbox, input_size>>
    /\ cropFrame

CvCropBoxInverse ==
    /\ cropped.done /\ pasted = <<>>
    /\ pasted' = cv_cropBoxInverse(cropped.out, cropped.bbox,
                                   <<Rows(cimg), Cols(cimg)>>, input_size)
    /\ UNCHANGED <<cimg, cimg0, cbbox, input_size, cropped, calls>>
    /\ cropFrame

NextCrop == FixCropBox \/ CvCropBoxInverse
SpecCrop == InitCrop /\ [][NextCrop]_vars

\* The crop's point map is a shift by whole pixels: no pixel is interpolated
CropIsShift ==
    LET t == CropTrans(cropped.bbox, input_size[1], input_size[2])
    IN  /\ t[1][1] = R(1) /\ t[1][2] = R(0) /\ t[2][1] = R(0) /\ t[2][2] = R(1)
        /\ RIsInt(t[1][3]) /\ RIsInt(t[2][3])

\* Pixel (x, y), 0-based, lies in the adjusted box [xmin, xmax) x [ymin, ymax)
InAdjustedBox(x, y) ==
    /\ cropped.bbox[1] <= x /\ x < cropped.bbox[3]
    /\ cropped.bbox[2] <= y /\ y < cropped.bbox[4]

\* C7: the crop of fix_cropBox pasted back by cv_cropBoxInverse with the
\* adjusted box has the original pixels inside the adjusted box and zero
\* outside it; stated for the crops that involve no interpolation, where the
\* pixels must agree exactly.
C7_PasteRestoresBox ==
    (pasted # <<>> /\ CropIsShift) =>
        \A y \in 1 .. Rows(cimg0) : \A x \in 1 .. Cols(cimg0) :
            pasted[y][x] = IF InAdjustedBox(x - 1, y - 1) THEN cimg0[y][x] ELSE Exactly(0)

\* C11: after fix_cropBox the caller's image is zero at exactly the pixels
\* outside the adjusted box (rows ymin..ymax-1, columns xmin..xmax-1) and holds
\* its original value at every pixel inside it, also when the adjusted box
\* reaches beyond the image.
C11_ZeroingKeepsBox ==
    cropped.done =>
        \A y \in 1 .. Rows(cimg0) : \A x \in 1 .. Cols(cimg0) :
            cimg[y][x] = IF InAdjustedBox(x - 1, y - 1) THEN cimg0[y][x] ELSE Exactly(0)

\* ------------------------------------------------------------------------
\* The selector
\* ------------------------------------------------------------------------
Presets == {"rmpe", "simple", "multi_simple", "simple_dense", "hrnet", "RMPE", ""}

InitSelect ==
    /\ preset \in Presets
    /\ hms \in {<<Channel(DecH, DecW, 0, {<<y, x, 100>>})>> : y \in 1 .. DecH, x \in 1 .. DecW}
    /\ hms0 = hms
    /\ dbbox = <<R(1), R(2), R(5), R(8)>>
    /\ DecodeUnused
    /\ BoxIdle /\ GaussIdle /\ FlipIdle /\ JointsIdle /\ AffineIdle /\ CropIdle
    /\ calls = 0

GetFuncHeatmapToCoord ==
    /\ decoder = NotSelected
    /\ decoder' = get_func_heatmap_to_coord(preset)
    /\ UNCHANGED <<preset, hms, hms0, dbbox, decoded, peaks>>
    /\ decFrame

\* The caller decodes with the function the selector returned
CallSelected ==
    /\ decoder.raised = "none"
    /\ decoder.func \in {"heatmap_to_coord_simple", "heatmap_to_coord_rmpe"}
    /\ HeatmapToCoord(decoder.func)

NextSelect == GetFuncHeatmapToCoord \/ CallSelected
SpecSelect == InitSelect /\ [][NextSelect]_vars

\* C9: the selector returns the RMPE decoder for "rmpe", the simple decoder
\* for "simple", "multi_simple" and "simple_dense", and for any other tag
\* raises NotImplementedError and returns no decoder; the decoder a caller
\* then runs is the one the tag names.
C9_SelectorByTag ==
    decoder # NotSelected =>
        /\ preset = "rmpe" =>
              decoder = [func |-> "heatmap_to_coord_rmpe", raised |-> "none"]
        /\ preset \in {"simple", "multi_simple", "simple_dense"} =>
              decoder = [func |-> "heatmap_to_coord_simple", raised |-> "none"]
        /\ preset \notin {"rmpe", "simple", "multi_simple", "simple_dense"} =>
              /\ decoder = [func |-> "none", raised |-> "NotImplementedError"]
              /\ decoded = NotDecoded
        /\ decoded # NotDecoded => decoded.func = decoder.func

\* An unknown tag, refused
C9_Witness ==
    /\ preset = "hrnet"
    /\ decoder = [func |-> "none", raised |-> "NotImplementedError"]

\* ------------------------------------------------------------------------
\* All the operations on one caller's buffers
\* ------------------------------------------------------------------------
InitCore ==
    /\ bbox = <<R(1), R(1), R(3), R(3)>> /\ bbox0 = bbox
    /\ imgwidth = MaxDim /\ imght = MaxDim /\ train \in BOOLEAN /\ sf = Rat(1, 2)
    /\ boxret = NoBox
    /\ gimg = BlankImg(GaussDim - 1, GaussDim) /\ gimg0 = gimg
    /\ pt \in {<<R(1), R(1)>>, <<R(0 - 4 * GaussDim), R(1)>>} /\ sigma = 1 /\ graised = FALSE
    /\ heatmap = [dim |-> 3, t |-> Tensor3(FlipH, FlipW, {<<2, 1, 1, 1>>})]
    /\ heatmap0 = heatmap /\ shift \in BOOLEAN /\ flipout = heatmap
    /\ joints_3d = PlainJoints /\ joints_3d0 = joints_3d
    /\ width = FlipW /\ jointsout = joints_3d
    /\ AffineIdle
    /\ preset = "simple"
    /\ hms = <<Channel(DecH, DecW, 0, {<<2, 3, 100>>})>> /\ hms0 = hms
    /\ dbbox = <<R(1), R(2), R(5), R(8)>>
    /\ DecodeUnused
    /\ cimg = Picture(CropDim, CropDim) /\ cimg0 = cimg
    /\ cbbox = <<R(1), R(0), R(3), R(2)>> /\ input_size = <<4, 2>>
    /\ CropUnused
    /\ calls = 0

NextCore ==
    \/ BoxTransform
    \/ FixCropBox
    \/ CvCropBoxInverse
    \/ DrawGaussian
    \/ FlipHeatmap
    \/ FlipJoints3d
    \/ HeatmapToCoordSimple
    \/ HeatmapToCoordRmpe
    \/ MultipeakHeatmapToCoord
SpecCore == InitCore /\ [][NextCore]_vars

\* C8: whatever calls were made, the caller's box, image, heatmaps and joint
\* array hold the values they held before the calls.
C8_ArgumentsKeepTheirValues ==
    /\ bbox = bbox0
    /\ cimg = cimg0
    /\ gimg = gimg0
    /\ heatmap = heatmap0
    /\ joints_3d = joints_3d0
    /\ hms = hms0
====
